---- MODULE Spec2Model ----
(***************************************************************************)
(* Model of the task-tracking HTTP service: the identity resolver          *)
(* (authMiddleware), the five task handlers of taskRoutes, the Task and    *)
(* User schemas and the global error handler of index.ts.                  *)
(*                                                                         *)
(* A request occupies a slot and moves  idle -> auth -> (authCreate) ->    *)
(* handler -> done -> idle.  Every store call (User.findOne, User.create,  *)
(* Task.find, Task.countDocuments, Task.findOne, Task.create,              *)
(* Task.findOneAndUpdate, Task.findOneAndDelete) is one atomic step.       *)
(* Under Spec the requests are served one at a time (one slot).            *)
(*                                                                         *)
(* Values.  A JavaScript string that the schema trims and measures (title, *)
(* description) is a run-length encoded sequence of runs <<char, count>>.  *)
(* An optional value (a field that may be undefined) is a set with at most *)
(* one element.  A status value is a TLA+ string; JsNull stands for the    *)
(* JavaScript null.  A decimal string (page, limit) is a sequence of       *)
(* digits.  The updatedAt timestamp of a task is not modelled.             *)
(***************************************************************************)
EXTENDS Integers, Sequences, FiniteSets, TLC

\* ---------------------------------------------------------------- bounds
\* Number of tasks created over a whole run (identifiers are never reused).
MaxTasks == 2
\* Largest page number a list request asks for.
MaxPage == 2
\* Largest page size a list request asks for explicitly.
MaxLimit == 2

\* ------------------------------------------------------- optional values
None == {}
Some(v) == {v}
Get(o) == CHOOSE v \in o : TRUE

\* ------------------------------------------------- strings (run-length)
RECURSIVE StrLen(_)
StrLen(s) == IF s = <<>> THEN 0 ELSE Head(s)[2] + StrLen(Tail(s))

RECURSIVE TrimLeft(_)
TrimLeft(s) ==
  IF s = <<>> THEN s
  ELSE IF Head(s)[1] = " " THEN TrimLeft(Tail(s)) ELSE s

RECURSIVE TrimRight(_)
TrimRight(s) ==
  IF s = <<>> THEN s
  ELSE IF s[Len(s)][1] = " " THEN TrimRight(SubSeq(s, 1, Len(s) - 1)) ELSE s

\* String.prototype.trim, which the schema option `trim: true` applies.
Trim(s) == TrimRight(TrimLeft(s))

\* !s for an optional string: undefined and "" are falsy.
Falsy(o) == o = None \/ StrLen(Get(o)) = 0

\* parseInt(s, 10) of a string of decimal digits.
RECURSIVE ParseInt(_)
ParseInt(ds) ==
  IF ds = <<>> THEN 0 ELSE 10 * ParseInt(SubSeq(ds, 1, Len(ds) - 1)) + ds[Len(ds)]

\* Math.ceil(a / b) for a >= 0, b > 0.
Ceil(a, b) == (a + b - 1) \div b

\* --------------------------------------------------------------- schemas
TaskStatusTODO == "To do"
TaskStatus == {"To do", "In Progress", "Done", "Archived"}
JsNull == "<null>"

TitleMaxLength == 200
DescriptionMaxLength == 2000

\* A status value is truthy unless it is null or "".
StatusTruthy(v) == v # JsNull /\ v # ""

\* Object.values(TaskStatus).includes(status)
StatusIncluded(v) == v \in TaskStatus

\* Schema validators of a String path with required and maxlength, run on
\* the value after its setters.
ValidText(v, max) == StrLen(v) > 0 /\ StrLen(v) <= max

\* (variant: the status path without `required`)
ValidStatusPathNotRequired(v) == v = JsNull \/ v \in TaskStatus
\* Schema validators of the status path: required, enum.
ValidStatusPath(v) == v # JsNull /\ v # "" /\ v \in TaskStatus

\* ---------------------------------------------------------------- inputs
Tokens == {"u1", "u2"}
\* The x-user-id header: a token, or "" when absent or empty.
Headers == Tokens \cup {""}

Ops == {"list", "get", "create", "update", "delete"}

Str(c, n) == << <<c, n>> >>
\* Plain values, which the schema stores as they are.
TitlePlain == { Str("A", 1) }
DescriptionPlain == { Str("D", 1) }
StatusPlain == { "Done" }
\* Edge values: empty, blank, padded, over-long; null, empty, non-member.
TitleEdge ==
  { <<>>, Str(" ", 2), << <<" ", 1>>, <<"B", 1>>, <<" ", 1>> >>, Str("x", TitleMaxLength + 1) }
DescriptionEdge ==
  { <<>>, Str(" ", 1), << <<" ", 1>>, <<"D", 1>> >>, Str("y", DescriptionMaxLength + 1) }
StatusEdge == { JsNull, "", "Bogus" }

TitleIn == TitlePlain \cup TitleEdge
DescriptionIn == DescriptionPlain \cup DescriptionEdge
StatusIn == StatusPlain \cup StatusEdge

Opt(S) == {None} \cup {Some(v) : v \in S}

\* Request bodies: every combination of absent and plain fields, and every
\* body with one edge value whose other two fields are both absent or both
\* plain.
EdgeCount(b) ==
  (IF b.title # None /\ Get(b.title) \in TitleEdge THEN 1 ELSE 0)
  + (IF b.description # None /\ Get(b.description) \in DescriptionEdge THEN 1 ELSE 0)
  + (IF b.status # None /\ Get(b.status) \in StatusEdge THEN 1 ELSE 0)
AbsentCount(b) ==
  (IF b.title = None THEN 1 ELSE 0) + (IF b.description = None THEN 1 ELSE 0)
  + (IF b.status = None THEN 1 ELSE 0)
Bodies ==
  { b \in [title : Opt(TitleIn), description : Opt(DescriptionIn), status : Opt(StatusIn)] :
      \/ EdgeCount(b) = 0
      \/ EdgeCount(b) = 1 /\ AbsentCount(b) \in {0, 2} }
EmptyBody == [title |-> None, description |-> None, status |-> None]

\* A task identifier parameter: Some(n) is a well-formed ObjectId (0 is one
\* the store never assigned), None is a string that does not cast.
IdParams == Opt(0 .. MaxTasks)

\* The querystring of a list request: status, page and limit, each optional;
\* page and limit are strings of decimal digits.
QueryStatusIn == Opt({"Bogus", "Done"})
QueryPageIn == Opt({ <<k>> : k \in 1 .. MaxPage })
QueryLimitIn == Opt({ <<k>> : k \in 1 .. MaxLimit })
NoQuery == [status |-> None, page |-> None, limit |-> None]

\* ---------------------------------------------------------------- errors
\* utils/errors.ts
NotFoundError(msg) == [name |-> "NotFoundError", statusCode |-> Some(404), message |-> msg]
ValidationError(msg) == [name |-> "ValidationError", statusCode |-> Some(400), message |-> msg]
\* Errors raised by the store library and the framework.
MongooseValidationError(msg) == [name |-> "ValidationError", statusCode |-> None, message |-> msg]
CastError == [name |-> "CastError", statusCode |-> None, message |-> "Cast to ObjectId failed"]
SchemaError(msg) == [name |-> "Error", statusCode |-> Some(400), message |-> msg]

NoPagination == None
Reply(code, err, msg, data, pagination) ==
  [code |-> code, error |-> err, message |-> msg, data |-> data, pagination |-> pagination]
NoRes == Reply(0, "", "", <<>>, NoPagination)
Ok(code, data) == Reply(code, "", "", data, NoPagination)
Fail(code, err, msg) == Reply(code, err, msg, <<>>, NoPagination)

\* (variant: no branch for CastError)
ErrorStatusNoCast(error) ==
  IF error.name = "ValidationError" THEN 400
  ELSE IF error.statusCode # None THEN Get(error.statusCode) ELSE 500
\* (variant: the statusCode of the error is not read)
ErrorStatusAlways500(error) == IF error.name = "CastError" THEN 400 ELSE 500
\* fastify.setErrorHandler of index.ts: the status code of an error.
ErrorStatus(error) ==
  IF error.name = "CastError" THEN 400
  ELSE IF error.name = "ValidationError" THEN 400
  ELSE IF error.statusCode # None THEN Get(error.statusCode) ELSE 500

\* (variant: the message of the error sent whatever the status code)
ErrorHandlerLeaks(error) ==
  Fail(ErrorStatus(error),
       IF error.name # "" THEN error.name ELSE "Internal Server Error",
       IF error.name = "CastError" THEN "Invalid task ID format" ELSE error.message)
\* fastify.setErrorHandler of index.ts: the reply.
ErrorHandler(error) ==
  LET statusCode == ErrorStatus(error)
      message == IF error.name = "CastError" THEN "Invalid task ID format" ELSE error.message
  IN Fail(statusCode,
          IF error.name # "" THEN error.name ELSE "Internal Server Error",
          IF statusCode = 500 THEN "An unexpected error occurred" ELSE message)

\* ----------------------------------------------------------------- state
VARIABLES
  tasks,     \* the Task collection: a set of documents
  users,     \* the User collection: a set of documents
  nextId,    \* the next ObjectId the store assigns to a task
  lastTs,    \* the creation time of the newest task (Date.now never goes back)
  req,       \* the request slots
  creator,   \* history: task identifier -> x-user-id of the request that created it
  deleted    \* history: identifiers of the tasks a delete answered 204 for

vars == <<tasks, users, nextId, lastTs, req, creator, deleted>>

\* The requests in flight at a time: one slot each.
Slots == DOMAIN req

\* What requests are drawn from: every input when the server handles one
\* request at a time, the plain inputs when two requests are in flight
\* together.
Serial == Cardinality(Slots) = 1
HeadersNow == IF Serial THEN Headers ELSE {"u1"}
OpsNow == IF Serial THEN Ops ELSE {"create", "update", "delete"}
BodiesNow ==
  IF Serial THEN Bodies
  ELSE { b \in Bodies : /\ EdgeCount(b) = 0
                         /\ (b.title = None) = (b.description = None)
                         /\ (b.title = None) = (b.status # None) }
IdParamsNow == IF Serial THEN IdParams ELSE { Some(n) : n \in 1 .. MaxTasks }
QueryStatusNow == IF Serial THEN QueryStatusIn ELSE {None}
QueryPageNow == IF Serial THEN QueryPageIn ELSE {None}
QueryLimitNow == IF Serial THEN QueryLimitIn ELSE {None}

\* seen is history: the identifiers of the tasks stored when the request
\* arrived.
NoReq ==
  [pc |-> "idle", uid |-> "", userId |-> "", op |-> "none", query |-> NoQuery,
   id |-> None, body |-> EmptyBody, found |-> None, cnt |-> None, res |-> NoRes,
   seen |-> {}]

Init ==
  /\ tasks = {}
  /\ users = {}
  /\ nextId = 1
  /\ lastTs = 0
  /\ req = [s \in {1} |-> NoReq]
  /\ creator = <<>>
  /\ deleted = {}

\* The same server with two requests in flight together.
InitConc ==
  /\ tasks = {}
  /\ users = {}
  /\ nextId = 1
  /\ lastTs = 0
  /\ req = [s \in {1, 2} |-> NoReq]
  /\ creator = <<>>
  /\ deleted = {}

Done(r, res) == [r EXCEPT !.pc = "done", !.res = res]

\* A request arrives.  The route's querystring schema (status enum) is
\* validated before the preHandler hook runs.  What only the handler reads
\* (the identifier, the body, page and limit) is drawn when the handler
\* reads it.
Receive(s) ==
  /\ req[s].pc = "idle"
  /\ \E uid \in HeadersNow, op \in OpsNow :
       \E st \in (IF op = "list" THEN QueryStatusNow ELSE {None}) :
         LET r == [NoReq EXCEPT !.uid = uid, !.op = op, !.query.status = st,
                                !.seen = { t.id : t \in tasks }] IN
         req' = [req EXCEPT ![s] =
           IF op = "list" /\ st # None /\ ~StatusIncluded(Get(st))
           THEN Done(r, ErrorHandler(SchemaError("querystring/status must be equal to one of the allowed values")))
           ELSE [r EXCEPT !.pc = "auth"]]
  /\ UNCHANGED <<tasks, users, nextId, lastTs, creator, deleted>>

\* authMiddleware up to the answer of User.findOne.
AuthFind(s) ==
  /\ req[s].pc = "auth"
  /\ LET r == req[s] IN
     req' = [req EXCEPT ![s] =
       IF r.uid = ""
       THEN Done(r, Fail(401, "Unauthorized", "x-user-id header is required"))
       ELSE IF \E u \in users : u.userId = r.uid
       THEN [r EXCEPT !.pc = "handler", !.userId = r.uid]
       ELSE [r EXCEPT !.pc = "authCreate"]]
  /\ UNCHANGED <<tasks, users, nextId, lastTs, creator, deleted>>

\* authMiddleware: User.create after findOne found nothing.  The unique
\* index on userId rejects a second document with the same token.
AuthCreate(s) ==
  /\ req[s].pc = "authCreate"
  /\ LET r == req[s] IN
     IF \E u \in users : u.userId = r.uid
     THEN /\ req' = [req EXCEPT ![s] =
               Done(r, Fail(500, "Internal Server Error", "Failed to authenticate user"))]
          /\ UNCHANGED users
     ELSE /\ users' = users \cup {[userId |-> r.uid]}
          /\ req' = [req EXCEPT ![s] = [r EXCEPT !.pc = "handler", !.userId = r.uid]]
  /\ UNCHANGED <<tasks, nextId, lastTs, creator, deleted>>

\* ------------------------------------------------------------- GET /tasks
Min(a, b) == IF a < b THEN a ELSE b

\* (variant: the query object without userId)
ListMatchesAnyOwner(r) ==
  { t \in tasks :
      (r.query.status # None /\ StatusTruthy(Get(r.query.status)))
         => t.status = Get(r.query.status) }
\* The query object of the list handler: { userId } plus status when truthy.
ListMatches(r) ==
  { t \in tasks :
      /\ t.userId = r.userId
      /\ (r.query.status # None /\ StatusTruthy(Get(r.query.status)))
            => t.status = Get(r.query.status) }

\* sort({ createdAt: -1 }): every order of S that is newest first; tasks
\* created in the same millisecond come in either order.
NewestFirst(S) ==
  { sq \in [1 .. Cardinality(S) -> S] :
      /\ \A i, j \in 1 .. Cardinality(S) : i # j => sq[i] # sq[j]
      /\ \A i, j \in 1 .. Cardinality(S) : i < j => sq[i].createdAt >= sq[j].createdAt }

PageOf(r) == ParseInt(IF r.query.page = None THEN <<1>> ELSE Get(r.query.page))
LimitOf(r) == ParseInt(IF r.query.limit = None THEN <<5, 0>> ELSE Get(r.query.limit))
\* (variant: the offset of the next page)
SkipOfNextPage(r) == PageOf(r) * LimitOf(r)
\* const skip = (page - 1) * limit
SkipOf(r) == (PageOf(r) - 1) * LimitOf(r)

\* .skip(skip).limit(limit) of a sorted result
Slice(sq, skip, limit) == SubSeq(sq, skip + 1, Min(skip + limit, Len(sq)))

TotalPages(total, limit) == Ceil(total, limit)

\* reply.send({ data, pagination }) once both queries of Promise.all answered.
ListReply(r) ==
  IF r.found = None \/ r.cnt = None THEN r
  ELSE Done(r, Reply(200, "", "", Get(r.found),
                Some([page |-> PageOf(r), limit |-> LimitOf(r), total |-> Get(r.cnt),
                      totalPages |-> TotalPages(Get(r.cnt), LimitOf(r))])))

\* Task.find(query).sort().skip().limit() answers.
ListFind(s) ==
  /\ req[s].pc = "handler" /\ req[s].op = "list" /\ req[s].found = None
  /\ \E page \in QueryPageNow, limit \in QueryLimitNow :
       LET r == [req[s] EXCEPT !.query.page = page, !.query.limit = limit] IN
       \E sq \in NewestFirst(ListMatches(r)) :
         req' = [req EXCEPT ![s] =
           ListReply([r EXCEPT !.found = Some(Slice(sq, SkipOf(r), LimitOf(r)))])]
  /\ UNCHANGED <<tasks, users, nextId, lastTs, creator, deleted>>

\* Task.countDocuments(query) answers.
ListCount(s) ==
  /\ req[s].pc = "handler" /\ req[s].op = "list" /\ req[s].cnt = None
  /\ req' = [req EXCEPT ![s] =
       ListReply([req[s] EXCEPT !.cnt = Some(Cardinality(ListMatches(req[s])))])]
  /\ UNCHANGED <<tasks, users, nextId, lastTs, creator, deleted>>

\* --------------------------------------------------------- GET /tasks/:id
\* The filter { _id: id, userId } of findOne, findOneAndUpdate, findOneAndDelete.
\* (variant: the filter without its userId conjunct)
OwnedMatchAnyOwner(id, userId) == { t \in tasks : t.id = id }
OwnedMatch(id, userId) == { t \in tasks : t.id = id /\ t.userId = userId }

GetOne(s) ==
  /\ req[s].pc = "handler" /\ req[s].op = "get"
  /\ \E id \in IdParamsNow :
       LET r == [req[s] EXCEPT !.id = id] IN
       req' = [req EXCEPT ![s] =
         IF id = None
         THEN Done(r, Fail(400, "Validation Error", "Invalid task ID format"))
         ELSE IF OwnedMatch(Get(id), r.userId) = {}
         THEN Done(r, ErrorHandler(NotFoundError("Task not found")))
         ELSE Done(r, Ok(200, << Get(OwnedMatch(Get(id), r.userId)) >>))]
  /\ UNCHANGED <<tasks, users, nextId, lastTs, creator, deleted>>

\* ------------------------------------------------------------ POST /tasks
\* const { status = TaskStatus.TODO } = request.body
CreateStatus(body) == IF body.status = None THEN TaskStatusTODO ELSE Get(body.status)

\* The first check of the create handler: !title || !description
CreateMissing(body) == Falsy(body.title) \/ Falsy(body.description)

\* status && !Object.values(TaskStatus).includes(status)
StatusRejected(status) == StatusTruthy(status) /\ ~StatusIncluded(status)

\* (variant: the owner taken from a fixed identity, not from the request)
NewTaskFixedOwner(body, userId, id, ts) ==
  [id |-> id, title |-> Trim(Get(body.title)), description |-> Trim(Get(body.description)),
   status |-> CreateStatus(body), userId |-> "u1", createdAt |-> ts]
\* The document Task.create builds: the setters of the schema applied.
NewTask(body, userId, id, ts) ==
  [id |-> id, title |-> Trim(Get(body.title)), description |-> Trim(Get(body.description)),
   status |-> CreateStatus(body), userId |-> userId, createdAt |-> ts]

\* The schema validators Task.create runs on the document: an undefined
\* path fails `required`, a present one is validated after its setters.
ValidCreate(body) ==
  /\ body.title # None /\ ValidText(Trim(Get(body.title)), TitleMaxLength)
  /\ body.description # None /\ ValidText(Trim(Get(body.description)), DescriptionMaxLength)
  /\ ValidStatusPath(CreateStatus(body))

\* Date.now() at creation: later than the newest task, or the same
\* millisecond as it.
CreationTimes == IF tasks = {} /\ nextId = 1 THEN {lastTs + 1} ELSE {lastTs, lastTs + 1}

Create(s) ==
  /\ req[s].pc = "handler" /\ req[s].op = "create"
  /\ \E body \in BodiesNow, ts \in CreationTimes :
       LET r == [req[s] EXCEPT !.body = body]
           t == NewTask(body, r.userId, nextId, ts)
       IN
       IF CreateMissing(body)
       THEN /\ req' = [req EXCEPT ![s] =
                 Done(r, ErrorHandler(ValidationError("Title and description are required")))]
            /\ UNCHANGED <<tasks, nextId, lastTs, creator>>
       ELSE IF StatusRejected(CreateStatus(body))
       THEN /\ req' = [req EXCEPT ![s] = Done(r, ErrorHandler(ValidationError("Invalid status")))]
            /\ UNCHANGED <<tasks, nextId, lastTs, creator>>
       ELSE IF ~ValidCreate(body)
       THEN /\ req' = [req EXCEPT ![s] =
                 Done(r, ErrorHandler(MongooseValidationError("Task validation failed")))]
            /\ UNCHANGED <<tasks, nextId, lastTs, creator>>
       ELSE /\ nextId <= MaxTasks
            /\ tasks' = tasks \cup {t}
            /\ nextId' = nextId + 1
            /\ lastTs' = ts
            /\ creator' = creator @@ (nextId :> r.uid)
            /\ req' = [req EXCEPT ![s] = Done(r, Ok(201, <<t>>))]
  /\ UNCHANGED <<users, deleted>>

\* ------------------------------------------------------- PATCH /tasks/:id
\* (variant: the empty-update check dropped)
NoUpdateDataNever(body) == FALSE
\* Object.keys(updateData).length === 0
NoUpdateData(body) == body.title = None /\ body.description = None /\ body.status = None

\* (variant: runValidators off)
ValidUpdateOff(body) == TRUE
\* The update validators (runValidators: true) on the paths of $set, each
\* value after its setters.
ValidUpdate(body) ==
  /\ body.title # None => ValidText(Trim(Get(body.title)), TitleMaxLength)
  /\ body.description # None => ValidText(Trim(Get(body.description)), DescriptionMaxLength)
  /\ body.status # None => ValidStatusPath(Get(body.status))

\* (variant: the document replaced, an omitted status falling back to its default)
ApplySetReplace(t, body) ==
  [t EXCEPT
     !.title = IF body.title = None THEN @ ELSE Trim(Get(body.title)),
     !.description = IF body.description = None THEN @ ELSE Trim(Get(body.description)),
     !.status = IF body.status = None THEN TaskStatusTODO ELSE Get(body.status)]
\* { $set: updateData } applied to a document.
ApplySet(t, body) ==
  [t EXCEPT
     !.title = IF body.title = None THEN @ ELSE Trim(Get(body.title)),
     !.description = IF body.description = None THEN @ ELSE Trim(Get(body.description)),
     !.status = IF body.status = None THEN @ ELSE Get(body.status)]

Update(s) ==
  /\ req[s].pc = "handler" /\ req[s].op = "update"
  /\ \E id \in IdParamsNow, body \in BodiesNow :
       LET r == [req[s] EXCEPT !.id = id, !.body = body] IN
       IF body.status # None /\ StatusRejected(Get(body.status))
       THEN /\ req' = [req EXCEPT ![s] = Done(r, ErrorHandler(ValidationError("Invalid status")))]
            /\ UNCHANGED tasks
       ELSE IF NoUpdateData(body)
       THEN /\ req' = [req EXCEPT ![s] =
                 Done(r, ErrorHandler(ValidationError("No valid fields provided for update")))]
            /\ UNCHANGED tasks
       ELSE IF id = None
       THEN /\ req' = [req EXCEPT ![s] = Done(r, ErrorHandler(CastError))]
            /\ UNCHANGED tasks
       ELSE IF ~ValidUpdate(body)
       THEN /\ req' = [req EXCEPT ![s] =
                 Done(r, ErrorHandler(MongooseValidationError("Validation failed")))]
            /\ UNCHANGED tasks
       ELSE IF OwnedMatch(Get(id), r.userId) = {}
       THEN /\ req' = [req EXCEPT ![s] = Done(r, ErrorHandler(NotFoundError("Task not found")))]
            /\ UNCHANGED tasks
       ELSE LET old == Get(OwnedMatch(Get(id), r.userId))
                new == ApplySet(old, body)
            IN /\ tasks' = (tasks \ {old}) \cup {new}
               /\ req' = [req EXCEPT ![s] = Done(r, Ok(200, <<new>>))]
  /\ UNCHANGED <<users, nextId, lastTs, creator, deleted>>

\* ------------------------------------------------------ DELETE /tasks/:id
\* (variant: the document found but not removed)
AfterDeleteKept(id, userId) == tasks
\* The collection after findOneAndDelete({ _id: id, userId }).
AfterDelete(id, userId) == tasks \ OwnedMatch(id, userId)

Delete(s) ==
  /\ req[s].pc = "handler" /\ req[s].op = "delete"
  /\ \E id \in IdParamsNow :
       LET r == [req[s] EXCEPT !.id = id] IN
       IF id = None
       THEN /\ req' = [req EXCEPT ![s] = Done(r, ErrorHandler(CastError))]
            /\ UNCHANGED <<tasks, deleted>>
       ELSE IF OwnedMatch(Get(id), r.userId) = {}
       THEN /\ req' = [req EXCEPT ![s] = Done(r, ErrorHandler(NotFoundError("Task not found")))]
            /\ UNCHANGED <<tasks, deleted>>
       ELSE /\ tasks' = AfterDelete(Get(id), r.userId)
            /\ deleted' = deleted \cup {Get(id)}
            /\ req' = [req EXCEPT ![s] = Done(r, Ok(204, <<>>))]
  /\ UNCHANGED <<users, nextId, lastTs, creator>>

\* The response has been sent; the slot is free again.
Complete(s) ==
  /\ req[s].pc = "done"
  /\ req' = [req EXCEPT ![s] = NoReq]
  /\ UNCHANGED <<tasks, users, nextId, lastTs, creator, deleted>>

Next ==
  \E s \in {1} :
    \/ Receive(s)
    \/ AuthFind(s)
    \/ AuthCreate(s)
    \/ ListFind(s)
    \/ ListCount(s)
    \/ GetOne(s)
    \/ Create(s)
    \/ Update(s)
    \/ Delete(s)
    \/ Complete(s)

Spec == Init /\ [][Next]_vars

\* Two requests in flight together: the steps of their hooks and handlers
\* interleave, each store operation being one step.
NextConc ==
  \E s \in {1, 2} :
    \/ Receive(s)
    \/ AuthFind(s)
    \/ AuthCreate(s)
    \/ Create(s)
    \/ Update(s)
    \/ Delete(s)
    \/ Complete(s)

SpecConc == InitConc /\ [][NextConc]_vars

\* ------------------------------------------------------- store failures
\* What a store call throws when the store cannot serve it.
StoreError ==
  [name |-> "MongoNetworkError", statusCode |-> None, message |-> "connect ECONNREFUSED"]

\* authMiddleware: User.findOne or User.create throws; the catch of the
\* middleware answers.
AuthFails(s) ==
  /\ \/ req[s].pc = "auth" /\ req[s].uid # ""
     \/ req[s].pc = "authCreate"
  /\ req' = [req EXCEPT ![s] =
       Done(req[s], Fail(500, "Internal Server Error", "Failed to authenticate user"))]
  /\ UNCHANGED <<tasks, users, nextId, lastTs, creator, deleted>>

\* The checks of a handler that precede its store call pass for some input:
\* the handler's own, the cast of the identifier and the validators.
ReachesStore(op) ==
  CASE op = "create" ->
         \E body \in BodiesNow :
           ~CreateMissing(body) /\ ~StatusRejected(CreateStatus(body)) /\ ValidCreate(body)
    [] op = "update" ->
         \E id \in IdParamsNow, body \in BodiesNow :
           /\ ~(body.status # None /\ StatusRejected(Get(body.status)))
           /\ ~NoUpdateData(body) /\ id # None /\ ValidUpdate(body)
    [] op \in {"get", "delete"} -> \E id \in IdParamsNow : id # None
    [] OTHER -> TRUE

\* The store call of a handler throws.  The error reaches setErrorHandler
\* (the catch of get-one rethrows what is not a CastError).  The reply does
\* not depend on what the handler read, which is left unrecorded.
HandlerFails(s) ==
  /\ req[s].pc = "handler"
  /\ ReachesStore(req[s].op) = TRUE
  /\ req' = [req EXCEPT ![s] = Done(req[s], ErrorHandler(StoreError))]
  /\ UNCHANGED <<tasks, users, nextId, lastTs, creator, deleted>>

NextFail ==
  \/ Next
  \/ \E s \in {1} : AuthFails(s) \/ HandlerFails(s)

\* The server when store calls may fail.
SpecFail == Init /\ [][NextFail]_vars

\* ---------------------------------------------------------------- claims
\* The request of slot s has been answered.
Answered(s) == req[s].pc = "done"
\* This step answers the request of slot s.
Answers(s) == req[s].pc # "done" /\ req'[s].pc = "done"

\* The request of slot s names, with a well-formed identifier, a task that
\* was created under an identity other than the caller's.
ForeignTarget(r) ==
  /\ r.op \in {"get", "update", "delete"}
  /\ r.userId # ""
  /\ r.id # None
  /\ Get(r.id) \in DOMAIN creator
  /\ creator[Get(r.id)] # r.userId

\* An update body the handler or the schema rejects.
UpdateBodyRejected(b) ==
  \/ b.title = None /\ b.description = None /\ b.status = None
  \/ b.status # None /\ Get(b.status) \notin TaskStatus
  \/ b.title # None /\ ~(StrLen(Trim(Get(b.title))) \in 1 .. TitleMaxLength)
  \/ b.description # None /\ ~(StrLen(Trim(Get(b.description))) \in 1 .. DescriptionMaxLength)

\* C1 (as stated): a get-one, update or delete by identity B on the
\* identifier of a task created under a different identity A is answered 404.
C1_Original ==
  \A s \in Slots :
    (Answered(s) /\ ForeignTarget(req[s])) => req[s].res.code = 404

\* C1 (amended): such a request is answered 404, or 400 when it is an update
\* whose body fails validation; never 403 and never 200 or 204.
C1_ForeignIsNotFound ==
  \A s \in Slots :
    (Answered(s) /\ ForeignTarget(req[s])) =>
      \/ req[s].res.code = 404
      \/ req[s].op = "update" /\ req[s].res.code = 400 /\ UpdateBodyRejected(req[s].body)

\* B's get-one on a task of A that is still stored has been answered 404.
C1_Witness ==
  \E s \in Slots :
    /\ Answered(s) /\ ForeignTarget(req[s]) /\ req[s].op = "get"
    /\ \E t \in tasks : t.id = Get(req[s].id)
    /\ req[s].res.code = 404

\* C2: a step of a request made by identity B leaves every task owned by a
\* different identity as it was, and adds no task owned by another identity.
C2_ForeignTasksUntouched ==
  [][\A s \in Slots :
       req'[s] # req[s] =>
         /\ \A t \in tasks : t.userId # req[s].uid => t \in tasks'
         /\ \A t \in tasks' : t.userId # req[s].uid => t \in tasks]_vars

\* B's delete of a task of A has been answered and the task is still stored.
C2_Witness ==
  \E s \in Slots :
    /\ Answered(s) /\ ForeignTarget(req[s]) /\ req[s].op = "delete"
    /\ \E t \in tasks : t.id = Get(req[s].id) /\ t.userId # req[s].uid

\* The elements of a sequence.
Range(sq) == { sq[i] : i \in DOMAIN sq }
\* The tasks an identity owns.
OwnedBy(u) == { t \in tasks : t.userId = u }
\* A list request answered with success.
Listed(s) == Answered(s) /\ req[s].op = "list" /\ req[s].res.code = 200

\* C3: a list by identity A returns only tasks A owns; with a status filter
\* every returned task has that status; with no filter, on the first page
\* and with a page size of at least the number of A's tasks, it returns
\* every task A owns and a total equal to their number.
C3_ListOwnTasksOnly ==
  \A s \in Slots :
    Listed(s) =>
      LET r == req[s]
          data == r.res.data
          p == Get(r.res.pagination)
      IN /\ \A i \in DOMAIN data : data[i].userId = r.uid
         /\ r.query.status # None =>
              \A i \in DOMAIN data : data[i].status = Get(r.query.status)
         /\ (r.query.status = None /\ p.page = 1 /\ p.limit >= Cardinality(OwnedBy(r.uid))) =>
              /\ Range(data) = OwnedBy(r.uid)
              /\ Len(data) = Cardinality(OwnedBy(r.uid))
              /\ p.total = Cardinality(OwnedBy(r.uid))

\* An unfiltered list of one identity returned its only task while another
\* identity owns a task too.
C3_Witness ==
  \E s \in Slots :
    /\ Listed(s) /\ req[s].query.status = None
    /\ Len(req[s].res.data) = 1
    /\ Get(req[s].res.pagination).total = 1
    /\ \E t \in tasks : t.userId # req[s].uid

\* C4: the owner of every stored task is the identity token of the request
\* that created it, and no step changes the owner of a task.
C4_OwnerIsCreator ==
  /\ [](\A t \in tasks : t.id \in DOMAIN creator /\ t.userId = creator[t.id])
  /\ [][\A t \in tasks : \A u \in tasks' : u.id = t.id => u.userId = t.userId]_vars

\* An update by the second identity succeeded and the updated task is still
\* owned by its creator.
C4_Witness ==
  \E s \in Slots :
    /\ Answered(s) /\ req[s].op = "update" /\ req[s].res.code = 200 /\ req[s].uid = "u2"
    /\ \E t \in tasks : t.id = Get(req[s].id) /\ t.userId = creator[t.id]

\* A field of a body that is missing or the empty string.
MissingOrEmpty(o) == o = None \/ Get(o) = <<>>

\* C5: a create whose title or description is missing or empty is answered
\* 400, whatever the other fields are, and stores no task.
C5_CreateRequiresTitleAndDescription ==
  [][\A s \in Slots :
       ( /\ Answers(s) /\ req'[s].op = "create" /\ req[s].pc = "handler"
         /\ (MissingOrEmpty(req'[s].body.title) \/ MissingOrEmpty(req'[s].body.description)) )
       => (req'[s].res.code = 400 /\ tasks' = tasks /\ nextId' = nextId)]_vars

\* A create with an empty title, a plain description and a valid status has
\* been answered 400.
C5_Witness ==
  \E s \in Slots :
    /\ Answered(s) /\ req[s].op = "create"
    /\ req[s].body.title = Some(<<>>)
    /\ req[s].body.description = Some(Str("D", 1))
    /\ req[s].body.status = Some("Done")
    /\ req[s].res.code = 400

\* C6: a create or update that carries a status value outside the enum,
\* the empty string and null included, is answered 400, whether or not the
\* task of the update exists or is owned by the caller.
C6_StatusOutsideEnumRejected ==
  \A s \in Slots :
    ( /\ Answered(s) /\ req[s].op \in {"create", "update"} /\ req[s].userId # ""
      /\ req[s].body.status # None
      /\ Get(req[s].body.status) \notin {"To do", "In Progress", "Done", "Archived"} )
    => req[s].res.code = 400

\* An update of a stored task of the caller that sets status to null, with
\* nothing else wrong, has been answered 400.
C6_Witness ==
  \E s \in Slots :
    /\ Answered(s) /\ req[s].op = "update"
    /\ req[s].body = [title |-> None, description |-> None, status |-> Some(JsNull)]
    /\ req[s].id # None
    /\ \E t \in tasks : t.id = Get(req[s].id) /\ t.userId = req[s].uid
    /\ req[s].res.code = 400

\* C7: a successful list over the N tasks of the caller that match the
\* filter, with page k and page size P (1 and 50 when omitted), reports
\* total = N and totalPages = ceil(N/P), and returns the tasks at positions
\* (k-1)*P .. (k-1)*P+P-1 of those tasks in a newest-first order, at most P.
C7_Pagination ==
  \A s \in Slots :
    Listed(s) =>
      LET r == req[s]
          data == r.res.data
          p == Get(r.res.pagination)
          M == { t \in tasks : t.userId = r.uid
                   /\ (r.query.status # None => t.status = Get(r.query.status)) }
          N == Cardinality(M)
      IN /\ p.page = (IF r.query.page = None THEN 1 ELSE Get(r.query.page)[1])
         /\ p.limit = (IF r.query.limit = None THEN 50 ELSE Get(r.query.limit)[1])
         /\ p.total = N
         /\ p.totalPages * p.limit >= N /\ (p.totalPages - 1) * p.limit < N
         /\ Len(data) <= p.limit
         /\ \E sq \in [1 .. N -> M] :
              /\ \A i, j \in 1 .. N : i < j => (sq[i] # sq[j] /\ sq[i].createdAt >= sq[j].createdAt)
              /\ Len(data) = (IF N > (p.page - 1) * p.limit
                              THEN Min(p.limit, N - (p.page - 1) * p.limit) ELSE 0)
              /\ \A i \in 1 .. Len(data) : data[i] = sq[(p.page - 1) * p.limit + i]

\* Page 2 of size 1 over two tasks of the caller returned the older one.
C7_Witness ==
  \E s \in Slots :
    /\ Listed(s) /\ req[s].query.status = None
    /\ Get(req[s].res.pagination) = [page |-> 2, limit |-> 1, total |-> 2, totalPages |-> 2]
    /\ Len(req[s].res.data) = 1
    /\ \E t \in tasks : t.createdAt > req[s].res.data[1].createdAt

\* This step answers an update of slot s with success.
UpdateSucceeds(s) ==
  Answers(s) /\ req[s].pc = "handler" /\ req'[s].op = "update" /\ req'[s].res.code = 200

\* The stored task with identifier id, before and after the step.
TaskBefore(id) == CHOOSE t \in tasks : t.id = id
TaskAfter(id) == CHOOSE t \in tasks' : t.id = id

\* What a successful update leaves alone: the fields the body omits, in the
\* stored task and in the returned record.
OmittedFieldsKept(s) ==
  LET b == req'[s].body
      id == Get(req'[s].id)
      old == TaskBefore(id)
      new == TaskAfter(id)
  IN /\ (\E t \in tasks : t.id = id) /\ (\E t \in tasks' : t.id = id)
     /\ req'[s].res.data = <<new>>
     /\ b.title = None => new.title = old.title
     /\ b.description = None => new.description = old.description
     /\ b.status = None => new.status = old.status
     /\ \A t \in tasks : t.id # id => t \in tasks'

\* C8 (as stated): a successful update leaves every omitted field as it was
\* and gives every provided field the provided value.
C8_Original ==
  [][\A s \in Slots :
       UpdateSucceeds(s) =>
         /\ OmittedFieldsKept(s)
         /\ LET b == req'[s].body
                new == TaskAfter(Get(req'[s].id))
            IN /\ b.title # None => new.title = Get(b.title)
               /\ b.description # None => new.description = Get(b.description)
               /\ b.status # None => new.status = Get(b.status)]_vars

\* C8 (amended): a successful update leaves every omitted field as it was
\* and gives every provided field the provided value, title and description
\* with their leading and trailing whitespace removed.
C8_PartialUpdate ==
  [][\A s \in Slots :
       UpdateSucceeds(s) =>
         /\ OmittedFieldsKept(s)
         /\ LET b == req'[s].body
                new == TaskAfter(Get(req'[s].id))
            IN /\ b.title # None => new.title = Trim(Get(b.title))
               /\ b.description # None => new.description = Trim(Get(b.description))
               /\ b.status # None => new.status = Get(b.status)]_vars

\* An update that provides only a title succeeded on a task whose status is
\* not the default.
C8_Witness ==
  \E s \in Slots :
    /\ Answered(s) /\ req[s].op = "update" /\ req[s].res.code = 200
    /\ req[s].body.title # None /\ req[s].body.description = None /\ req[s].body.status = None
    /\ req[s].res.data[1].status = "Done"
    /\ req[s].res.data[1].title = Get(req[s].body.title)

\* C9: an update whose body provides none of title, description and status
\* is answered 400 and changes no task, whether or not the task exists.
C9_EmptyUpdateRejected ==
  [][\A s \in Slots :
       ( /\ Answers(s) /\ req[s].pc = "handler" /\ req'[s].op = "update"
         /\ req'[s].body = [title |-> None, description |-> None, status |-> None] )
       => (req'[s].res.code = 400 /\ tasks' = tasks)]_vars

\* An empty update of a stored task of the caller has been answered 400.
C9_Witness ==
  \E s \in Slots :
    /\ Answered(s) /\ req[s].op = "update" /\ req[s].userId # ""
    /\ req[s].body = [title |-> None, description |-> None, status |-> None]
    /\ req[s].id # None
    /\ \E t \in tasks : t.id = Get(req[s].id) /\ t.userId = req[s].uid
    /\ req[s].res.code = 400

\* This step answers a get-one, update or delete of slot s on the identifier
\* of a task that a delete removed before.
TargetsDeleted(s) ==
  /\ Answers(s) /\ req[s].pc = "handler"
  /\ req'[s].op \in {"get", "update", "delete"}
  /\ req'[s].id # None /\ Get(req'[s].id) \in deleted

\* C10 (as stated): once a delete of T answered 204, every later get-one,
\* update or delete on T's identifier is answered 404.
C10_Original ==
  [][\A s \in Slots : TargetsDeleted(s) => req'[s].res.code = 404]_vars

\* C10 (amended): once a delete of T answered 204, T is never stored again,
\* no list returns it, and every later get-one, update or delete on T's
\* identifier is answered 404, or 400 when it is an update whose body fails
\* validation.
C10_DeletedStaysGone ==
  /\ [](\A t \in tasks : t.id \notin deleted)
  /\ [](\A s \in Slots : Listed(s) =>
          \A i \in DOMAIN req[s].res.data : req[s].res.data[i].id \notin deleted)
  /\ [][\A s \in Slots :
          TargetsDeleted(s) =>
            \/ req'[s].res.code = 404
            \/ /\ req'[s].op = "update" /\ req'[s].res.code = 400
               /\ UpdateBodyRejected(req'[s].body)]_vars

\* The former owner's get-one on a deleted task has been answered 404.
C10_Witness ==
  \E s \in Slots :
    /\ Answered(s) /\ req[s].op = "get"
    /\ req[s].id # None /\ Get(req[s].id) \in deleted
    /\ creator[Get(req[s].id)] = req[s].uid
    /\ req[s].res.code = 404

\* The request of slot s came without an identity token.
NoToken(s) == req[s].pc # "idle" /\ req[s].uid = ""

\* C11: a request whose x-user-id is absent or empty is answered 401 on every
\* endpoint; no identity record is looked up or created and the task
\* operation does not run: while the request is in flight the identity store
\* and the task store stay as they were.
C11_NoTokenIsUnauthorized ==
  /\ [](\A s \in Slots : (Answered(s) /\ NoToken(s)) => req[s].res.code = 401)
  /\ [][\A s \in Slots :
          NoToken(s) => /\ users' = users /\ tasks' = tasks
                        /\ req'[s].pc \notin {"authCreate", "handler"}]_vars

\* The identity resolver answered the request of slot s with 500.
AuthFailed(s) ==
  /\ Answered(s) /\ req[s].uid # "" /\ req[s].userId = ""
  /\ req[s].res.code = 500

\* C12: when two first requests carrying the same unseen token run together,
\* the one whose User.create is rejected by the unique index goes on to its
\* task operation: the identity resolver answers no request with 500, and
\* there is at most one identity record per token.
C12_CreateRaceTolerated ==
  /\ \A s \in Slots : ~AuthFailed(s)
  /\ \A u, v \in users : u.userId = v.userId => u = v

\* The handler of slot s has read a task identifier that does not cast to
\* an ObjectId.
MalformedId(r) ==
  r.pc = "done" /\ r.userId # "" /\ r.op \in {"get", "update", "delete"} /\ r.id = None

\* C13: a get-one, update or delete whose task identifier is malformed is
\* answered 400, never 404 and never 500, and the step that answers it
\* leaves every task as it was.
C13_MalformedIdIsBadRequest ==
  /\ [](\A s \in Slots : MalformedId(req[s]) => req[s].res.code = 400)
  /\ [][\A s \in Slots : (Answers(s) /\ MalformedId(req'[s])) => tasks' = tasks]_vars

\* A delete with a malformed identifier has been answered 400 while a task
\* of the caller is stored.
C13_Witness ==
  \E s \in Slots :
    /\ MalformedId(req[s]) /\ req[s].op = "delete" /\ req[s].res.code = 400
    /\ \E t \in tasks : t.userId = req[s].userId

\* The request of slot s has been answered 500.
ServerError(s) == Answered(s) /\ req[s].res.code = 500

\* This step is a store call of slot s throwing: in identity resolution, or
\* in a handler, where the reply names the exception.
StoreFailure(s) ==
  \/ AuthFails(s)
  \/ req'[s].res.error = StoreError.name /\ HandlerFails(s)

\* C14 (as stated): a failure that is none of Unauthorized, ValidationError,
\* NotFound or a malformed identifier, a store failure during identity
\* resolution included, is answered 500 with an envelope {error, message}
\* whose message is the generic "unexpected error" text.
C14_Original ==
  /\ [](\A s \in Slots :
          ServerError(s) => /\ req[s].res.error # ""
                            /\ req[s].res.message = "An unexpected error occurred")
  /\ [][\A s \in Slots : StoreFailure(s) => req'[s].res.code = 500]_vars

\* C14 (amended): such a failure is answered 500 with an envelope
\* {error, message} whose message is a fixed text, never the message of the
\* exception: "An unexpected error occurred" when the failure is in a
\* handler, "Failed to authenticate user" when it is in identity resolution.
C14_ServerErrorIsOpaque ==
  /\ [](\A s \in Slots :
          ServerError(s) =>
            /\ req[s].res.error # ""
            /\ req[s].res.message # StoreError.message
            /\ req[s].res.message =
                 IF req[s].userId = "" THEN "Failed to authenticate user"
                 ELSE "An unexpected error occurred")
  /\ [][\A s \in Slots : StoreFailure(s) => req'[s].res.code = 500]_vars

\* The store call of a delete threw and the delete has been answered 500
\* with the generic message, a task of the caller still stored.
C14_Witness ==
  \E s \in Slots :
    /\ ServerError(s) /\ req[s].op = "delete" /\ req[s].userId # ""
    /\ req[s].res.message = "An unexpected error occurred"
    /\ \E t \in tasks : t.userId = req[s].userId

\* A title or description the schema does not accept: empty or blank once
\* trimmed, or longer than the maximum.
BadText(v, max) == StrLen(Trim(v)) \notin 1 .. max
BadTextUpdate(b) ==
  \/ b.title # None /\ BadText(Get(b.title), TitleMaxLength)
  \/ b.description # None /\ BadText(Get(b.description), DescriptionMaxLength)

\* C15: every stored task has a non-empty title of at most 200 characters, a
\* non-empty description of at most 2000 characters and a status of the
\* enum; an update that sets the title or the description to an empty,
\* blank or over-long value is answered 400 and leaves every task as it was.
C15_StoredTasksValid ==
  /\ [](\A t \in tasks :
          /\ StrLen(t.title) \in 1 .. TitleMaxLength
          /\ StrLen(t.description) \in 1 .. DescriptionMaxLength
          /\ t.status \in TaskStatus)
  /\ [][\A s \in Slots :
          (Answers(s) /\ req[s].pc = "handler" /\ req'[s].op = "update"
             /\ BadTextUpdate(req'[s].body))
          => req'[s].res.code = 400 /\ tasks' = tasks]_vars

\* The owner's update setting the description of a stored task to an
\* over-long value has been answered 400.
C15_Witness ==
  \E s \in Slots :
    /\ Answered(s) /\ req[s].op = "update" /\ req[s].res.code = 400
    /\ req[s].body.title = None /\ req[s].body.status = None
    /\ req[s].body.description # None
    /\ StrLen(Get(req[s].body.description)) > DescriptionMaxLength
    /\ \E t \in tasks : Some(t.id) = req[s].id /\ t.userId = req[s].userId

\* Slots a and b hold an update and a delete, both answered, that the owner
\* of one task sent for it while it was stored; the body of the update
\* passes validation.
Raced(a, b) ==
  /\ a # b /\ Answered(a) /\ Answered(b)
  /\ req[a].op = "update" /\ req[b].op = "delete"
  /\ req[a].id # None /\ req[a].id = req[b].id
  /\ Get(req[a].id) \in req[a].seen \cap req[b].seen
  /\ creator[Get(req[a].id)] = req[a].uid /\ req[b].uid = req[a].uid
  /\ ~UpdateBodyRejected(req[a].body)

\* C16: when the owner's update and delete of one stored task run together,
\* once both are answered the delete has answered 204, the update 200 or
\* 404, and the task is not stored; no request of an identity that owns a
\* stored task is answered 500; a task a delete answered 204 for is never
\* stored afterwards.
C16_UpdateDeleteRace ==
  /\ \A a, b \in Slots :
       Raced(a, b) => /\ req[b].res.code = 204
                      /\ req[a].res.code \in {200, 404}
                      /\ \A t \in tasks : t.id # Get(req[a].id)
  /\ \A s \in Slots :
       (Answered(s) /\ \E i \in req[s].seen : creator[i] = req[s].uid)
         => req[s].res.code # 500
  /\ \A t \in tasks : t.id \notin deleted

\* The update ran after the delete and has been answered 404.
C16_Witness ==
  \E a, b \in Slots : Raced(a, b) /\ req[a].res.code = 404 /\ req[b].res.code = 204

====
